---- MODULE Spec2Model ----
(***************************************************************************)
(* ConversationAnalyzer (utils/conversationAnalyzer.ts): the rule-based    *)
(* conversation scorer.  A text is a sequence of one-character strings;    *)
(* every regular expression of PATTERNS is an operator giving, for a start *)
(* position, the end of the match the ECMAScript backtracking matcher      *)
(* finds there.  Positions are 1-based; lastIndex is the 0-based cursor of *)
(* a RegExp object, so a match of characters i..e-1 leaves lastIndex = e-1.*)
(* Intermediate values are handed on as operator arguments.                *)
(*                                                                         *)
(* LLMAnalyzer (utils/llmAnalyzer.ts), App (App.tsx) and ConversationInput *)
(* (components/ConversationInput.tsx): the form, the two ways of analysis, *)
(* the provider's replies and what App is left showing.  Spec explores the *)
(* analyzer on texts, ScoreSpec calculateScore on issue lists, AppSpec the *)
(* application, AppFairSpec the application with its waits ending,        *)
(* AppOwnSpec the application as the only writer of its stored item.       *)
(***************************************************************************)
EXTENDS Integers, Sequences, FiniteSets, TLC

\* Bounds of the explored inputs.
MaxChunks == 2
MaxCalls == 2
MaxIssues == 6
MaxStrengths == 4
MaxPermuted == 5

-----------------------------------------------------------------------------
\* Characters

\* Upper-case letter to lower-case letter.
LowerMap ==
  [A |-> "a", B |-> "b", C |-> "c", D |-> "d", E |-> "e",
   F |-> "f", G |-> "g", H |-> "h", I |-> "i", J |-> "j",
   K |-> "k", L |-> "l", M |-> "m", N |-> "n", O |-> "o",
   P |-> "p", Q |-> "q", R |-> "r", S |-> "s", T |-> "t",
   U |-> "u", V |-> "v", W |-> "w", X |-> "x", Y |-> "y",
   Z |-> "z"]

\* Canonicalize of the i flag, restricted to ASCII.
Lower(c) == IF c \in DOMAIN LowerMap THEN LowerMap[c] ELSE c

Letters ==
  {"a", "b", "c", "d", "e", "f", "g", "h", "i", "j", "k", "l", "m",
   "n", "o", "p", "q", "r", "s", "t", "u", "v", "w", "x", "y", "z"}

Digits == {"0", "1", "2", "3", "4", "5", "6", "7", "8", "9"}

\* \w
WordChars == Letters \cup Digits \cup {"_"}

\* [A-Z] under the i flag: the letters of both cases.
LettersAnyCase == Letters \cup DOMAIN LowerMap

\* Characters that . does not match and that multiline $ stops before.
LineTerminators == {"\n", "\r"}

\* \s
WhiteSpace == {" ", "\t", "\n", "\r", "\f"}

\* The characters of the texts, and those that . matches.
AllChars == LettersAnyCase \cup Digits \cup WhiteSpace \cup
            {"_", "?", "!", ".", ",", "'"}

Dot == AllChars \ LineTerminators

Min(S) == CHOOSE x \in S : \A y \in S : x <= y

Max(S) == CHOOSE x \in S : \A y \in S : x >= y

IsWordChar(s, i) == i >= 1 /\ i <= Len(s) /\ Lower(s[i]) \in WordChars

\* \b between character i-1 and character i.
WordBoundary(s, i) == IsWordChar(s, i - 1) # IsWordChar(s, i)

\* A literal of a pattern with the i flag matches at position i.
LitAt(s, i, lit) ==
  /\ i + Len(lit) - 1 <= Len(s)
  /\ \A k \in 1..Len(lit) : Lower(s[i + k - 1]) = lit[k]

\* The end of the first alternative among those (ok) that match at i, or 0.
AltPick(i, alts, ok) == IF ok = {} THEN 0 ELSE i + Len(alts[Min(ok)])

\* \b(alt1|alt2|...)\b at position i: the first alternative, in order, that
\* matches and is followed by a word boundary.  The end of the match, or 0.
AltEnd(s, i, alts) ==
  IF ~WordBoundary(s, i) THEN 0
  ELSE AltPick(i, alts,
               {k \in 1..Len(alts) :
                  LitAt(s, i, alts[k]) /\ WordBoundary(s, i + Len(alts[k]))})

RECURSIVE FirstNotIn(_, _, _, _)
RECURSIVE FirstNotInRight(_, _, _, _, _)
\* First position in lo..hi whose character is not in set C, hi + 1 if there
\* is none.  The range is halved (l is the answer for the left half), which
\* keeps the evaluation shallow.
FirstNotIn(s, lo, hi, C) ==
  IF lo > hi THEN hi + 1
  ELSE IF lo = hi THEN (IF s[lo] \in C THEN hi + 1 ELSE lo)
  ELSE FirstNotInRight(s, (lo + hi) \div 2, hi, C,
                       FirstNotIn(s, lo, (lo + hi) \div 2, C))

FirstNotInRight(s, mid, hi, C, l) ==
  IF l <= mid THEN l ELSE FirstNotIn(s, mid + 1, hi, C)

\* The end of a greedy run of C characters that starts at position i.
RunEnd(s, i, C) == FirstNotIn(s, i, Len(s), C)

\* Position of the next line terminator at or after i (Len(s)+1 if none).
LineEnd(s, i) == FirstNotIn(s, i, Len(s), Dot)

-----------------------------------------------------------------------------
\* PATTERNS

interrupting_words ==
  <<<<"b", "u", "t">>,
    <<"h", "o", "w", "e", "v", "e", "r">>,
    <<"a", "c", "t", "u", "a", "l", "l", "y">>,
    <<"w", "e", "l", "l", " ", "a", "c", "t", "u", "a", "l", "l", "y">>>>

delayed_responses_words ==
  <<<<"s", "o", "r", "r", "y", " ", "f", "o", "r", " ", "t", "h", "e", " ", "l", "a", "t", "e", " ", "r", "e", "p", "l", "y">>,
    <<"s", "o", "r", "r", "y", " ", "i", " ", "j", "u", "s", "t", " ", "s", "a", "w", " ", "t", "h", "i", "s">>,
    <<"b", "e", "e", "n", " ", "b", "u", "s", "y">>>>

personal_details_words ==
  <<<<"m", "y", " ", "e", "x">>,
    <<"m", "y", " ", "t", "h", "e", "r", "a", "p", "i", "s", "t">>,
    <<"m", "y", " ", "m", "e", "d", "i", "c", "a", "t", "i", "o", "n">>,
    <<"m", "y", " ", "p", "r", "o", "b", "l", "e", "m", "s">>,
    <<"m", "y", " ", "t", "r", "a", "u", "m", "a">>>>

negative_venting_words ==
  <<<<"h", "a", "t", "e">>,
    <<"h", "o", "r", "r", "i", "b", "l", "e">>,
    <<"a", "w", "f", "u", "l">>,
    <<"t", "e", "r", "r", "i", "b", "l", "e">>,
    <<"w", "o", "r", "s", "t">>,
    <<"c", "a", "n", "'", "t", " ", "s", "t", "a", "n", "d">>>>

enthusiasm_words ==
  <<<<"l", "o", "v", "e">>,
    <<"a", "m", "a", "z", "i", "n", "g">>,
    <<"a", "w", "e", "s", "o", "m", "e">>,
    <<"e", "x", "c", "i", "t", "e", "d">>,
    <<"c", "a", "n", "'", "t", " ", "w", "a", "i", "t">>>>

disengagement_words ==
  <<<<"b", "u", "s", "y">>,
    <<"s", "w", "a", "m", "p", "e", "d">>,
    <<"h", "e", "c", "t", "i", "c">>,
    <<"w", "h", "a", "t", "e", "v", "e", "r">>,
    <<"d", "o", "n", "'", "t", " ", "c", "a", "r", "e">>,
    <<"n", "o", "t", " ", "i", "n", "t", "e", "r", "e", "s", "t", "e", "d">>>>

pushy_behavior_words ==
  <<<<"y", "o", "u", " ", "s", "h", "o", "u", "l", "d">>,
    <<"y", "o", "u", " ", "n", "e", "e", "d", " ", "t", "o">>,
    <<"y", "o", "u", " ", "h", "a", "v", "e", " ", "t", "o">>,
    <<"w", "h", "y", " ", "d", "o", "n", "'", "t", " ", "y", "o", "u">>>>

inappropriate_questions_words ==
  <<<<"h", "o", "w", " ", "m", "u", "c", "h", " ", "d", "o", " ", "y", "o", "u", " ", "m", "a", "k", "e">>,
    <<"a", "r", "e", " ", "y", "o", "u", " ", "s", "i", "n", "g", "l", "e">>,
    <<"w", "h", "a", "t", "'", "s", " ", "y", "o", "u", "r", " ", "a", "d", "d", "r", "e", "s", "s">>>>

one_word_responses_words ==
  <<<<"o", "k">>,
    <<"y", "e", "s">>,
    <<"n", "o">>,
    <<"m", "a", "y", "b", "e">>,
    <<"s", "u", "r", "e">>,
    <<"f", "i", "n", "e">>>>

PatternNames ==
  {"excessive_questions", "one_word_responses", "interrupting",
   "rapid_fire_messages", "delayed_responses", "personal_details",
   "negative_venting", "enthusiasm_markers", "disengagement",
   "pushy_behavior", "inappropriate_questions"}

\* Positions of the question marks of the line that position i is in, from i on.
QuestionMarks(s, i) == {j \in i..(LineEnd(s, i) - 1) : s[j] = "?"}

\* Both .* are greedy: with three question marks or more (qs) the match runs
\* to the last one of the line.
QuestionsEnd(qs) == IF Cardinality(qs) >= 3 THEN Max(qs) + 1 ELSE 0

\* /\?.*\?.*\?/g
excessive_questions(s, i) ==
  IF i <= Len(s) /\ s[i] = "?" THEN QuestionsEnd(QuestionMarks(s, i)) ELSE 0

\* \s*$ (flag m) from position j, w the end of the run of white space: \s*
\* gives characters back until it stands at the end of the text or before a
\* line terminator.
DollarPick(stops) == IF stops = {} THEN 0 ELSE Max(stops)

DollarStops(s, j, w) ==
  {e \in j..w : e = Len(s) + 1 \/ (e <= Len(s) /\ s[e] \in LineTerminators)}

DollarEnd(s, j) == DollarPick(DollarStops(s, j, RunEnd(s, j, WhiteSpace)))

\* \.?\s*$ from position j: first with the full stop (d is the end found
\* behind it), then without.
TailPick(s, j, d) == IF d # 0 THEN d ELSE DollarEnd(s, j)

TailEnd(s, j) ==
  IF j <= Len(s) /\ s[j] = "." THEN TailPick(s, j, DollarEnd(s, j + 1))
  ELSE DollarEnd(s, j)

OneWordPick(s, i, ok) ==
  IF ok = {} THEN 0 ELSE TailEnd(s, i + Len(one_word_responses_words[Min(ok)]))

\* /\b(ok|yes|no|maybe|sure|fine)\b\.?\s*$/gim
one_word_responses(s, i) ==
  IF ~WordBoundary(s, i) THEN 0
  ELSE OneWordPick(s, i,
         {k \in 1..Len(one_word_responses_words) :
            /\ LitAt(s, i, one_word_responses_words[k])
            /\ WordBoundary(s, i + Len(one_word_responses_words[k]))
            /\ TailEnd(s, i + Len(one_word_responses_words[k])) # 0})

\* One iteration of (.{1,50}\n) at position i, e the end of the line: 1 to 50
\* characters other than line terminators, then a newline.  The end of the
\* iteration, or 0.
ShortLinePick(s, i, e) ==
  IF e <= Len(s) /\ s[e] = "\n" /\ e - i >= 1 /\ e - i <= 50 THEN e + 1 ELSE 0

ShortLineEnd(s, i) == ShortLinePick(s, i, LineEnd(s, i))

RECURSIVE ShortLines(_, _, _)
RECURSIVE ShortLinesStep(_, _, _, _)
\* Greedy repetition of the iteration from position i, after n iterations:
\* <<iterations, end>>.
ShortLines(s, i, n) == ShortLinesStep(s, i, n, ShortLineEnd(s, i))

ShortLinesStep(s, i, n, e) ==
  IF e = 0 THEN <<n, i>> ELSE ShortLines(s, e, n + 1)

BurstEnd(r) == IF r[1] >= 3 THEN r[2] ELSE 0

\* /(.{1,50}\n){3,}/g
rapid_fire_messages(s, i) ==
  IF i > Len(s) THEN 0 ELSE BurstEnd(ShortLines(s, i, 0))

\* [A-Z]{3,} at i (l the end of the run of letters), else the words.
LettersOrWords(s, i, l) ==
  IF l - i >= 3 THEN l ELSE AltEnd(s, i, enthusiasm_words)

\* !{2,} at i (b the end of the run of exclamation points), else the rest.
BangsOrRest(s, i, b) ==
  IF b - i >= 2 THEN b ELSE LettersOrWords(s, i, RunEnd(s, i, LettersAnyCase))

\* /!{2,}|[A-Z]{3,}|\b(love|amazing|awesome|excited|can't wait)\b/gi : with
\* the i flag the class [A-Z] matches the letters of both cases.
enthusiasm_markers(s, i) ==
  IF i > Len(s) THEN 0 ELSE BangsOrRest(s, i, RunEnd(s, i, {"!"}))

\* The end of the match of pattern p that starts at position i, or 0.
MatchEndAt(p, s, i) ==
  CASE p = "excessive_questions" -> excessive_questions(s, i)
    [] p = "one_word_responses" -> one_word_responses(s, i)
    [] p = "interrupting" -> AltEnd(s, i, interrupting_words)
    [] p = "rapid_fire_messages" -> rapid_fire_messages(s, i)
    [] p = "delayed_responses" -> AltEnd(s, i, delayed_responses_words)
    [] p = "personal_details" -> AltEnd(s, i, personal_details_words)
    [] p = "negative_venting" -> AltEnd(s, i, negative_venting_words)
    [] p = "enthusiasm_markers" -> enthusiasm_markers(s, i)
    [] p = "disengagement" -> AltEnd(s, i, disengagement_words)
    [] p = "pushy_behavior" -> AltEnd(s, i, pushy_behavior_words)
    [] p = "inappropriate_questions" -> AltEnd(s, i, inappropriate_questions_words)

-----------------------------------------------------------------------------
\* Regular-expression objects: exec and String.prototype.match

RECURSIVE SearchIn(_, _, _, _)
RECURSIVE SearchInRight(_, _, _, _, _)
\* <<start, end>> when a match starts at i and ends at e (0: none).
MatchAt(i, e) == IF e # 0 THEN <<i, e>> ELSE <<0, 0>>

\* The matcher tries the start positions lo..hi in increasing order:
\* <<start, end>> of the first match, <<0, 0>> if there is none.  The range
\* is halved (l is the answer for the left half), which keeps the evaluation
\* shallow.
SearchIn(p, s, lo, hi) ==
  IF lo > hi THEN <<0, 0>>
  ELSE IF lo = hi THEN MatchAt(lo, MatchEndAt(p, s, lo))
  ELSE SearchInRight(p, s, (lo + hi) \div 2, hi,
                     SearchIn(p, s, lo, (lo + hi) \div 2))

SearchInRight(p, s, mid, hi, l) ==
  IF l[1] # 0 THEN l ELSE SearchIn(p, s, mid + 1, hi)

SearchFrom(p, s, i) == SearchIn(p, s, i, Len(s) + 1)

\* What exec returns and where it leaves lastIndex, m = <<start, end>>.
ExecResult(s, m) ==
  IF m[1] = 0
  THEN [found |-> FALSE, match |-> <<>>, lastIndex |-> 0]
  ELSE [found |-> TRUE, match |-> SubSeq(s, m[1], m[2] - 1),
        lastIndex |-> m[2] - 1]

\* RegExpBuiltinExec of a regular expression with the g flag: starts at
\* lastIndex, leaves lastIndex after the match, or at 0 when nothing matches.
RegExpExec(p, s, li) ==
  ExecResult(s, IF li > Len(s) THEN <<0, 0>> ELSE SearchFrom(p, s, li + 1))

RECURSIVE MatchLoop(_, _, _, _)
RECURSIVE MatchLoopStep(_, _, _, _)
\* exec repeated from cursor li until it fails; acc are the matches so far.
MatchLoop(p, s, li, acc) == MatchLoopStep(p, s, acc, RegExpExec(p, s, li))

MatchLoopStep(p, s, acc, r) ==
  IF r.found
  THEN MatchLoop(p, s, r.lastIndex, Append(acc, r.match))
  ELSE [matches |-> acc, lastIndex |-> r.lastIndex]

\* The outcome of a single exec as a match result.
OneMatch(r) ==
  [matches |-> IF r.found THEN <<r.match>> ELSE <<>>, lastIndex |-> r.lastIndex]

\* A single exec from the cursor the object was left with (what RegExp.test
\* or RegExp.exec do): at most one match, and the cursor stays behind it.
StringMatchSticky(p, s, li) == OneMatch(RegExpExec(p, s, li))

\* text.match(PATTERNS.p) where the object's lastIndex is li: the cursor is
\* set to 0, exec is repeated until it fails.  matches = <<>> stands for the
\* null that match returns when there is no match.
StringMatch(p, s, li) == MatchLoop(p, s, 0, <<>>)

\* The guard with >= in place of > .
ExceedsOrEquals(matches, n) == matches # <<>> /\ Len(matches) >= n

\* matches && matches.length > n
Exceeds(matches, n) == matches # <<>> /\ Len(matches) > n

\* Reading a property (length, slice) of x raises a TypeError when x is the
\* null that match returns.
PropertyReadRaises(x) == x = <<>>

\* The guard without its null test: matches.length > n.
ExceedsRaisesUnguarded(matches) == PropertyReadRaises(matches)

\* Whether evaluating  matches && matches.length > n  raises an error: &&
\* evaluates its right operand only when the left one is truthy.
ExceedsRaises(matches) == matches # <<>> /\ PropertyReadRaises(matches)

\* array.slice(0): the whole array, whatever the limit.
SliceAll(xs, n) == xs

\* array.slice(0, n)
Slice(xs, n) == SubSeq(xs, 1, IF Len(xs) < n THEN Len(xs) ELSE n)

-----------------------------------------------------------------------------
\* The four passes.  st carries the arrays the passes push to, the cursors
\* of the pattern objects (lastIndex) and the match counts seen (counts); m is
\* what text.match returned for the detector's pattern.

Issue(c, t, sv, ex) == [category |-> c, title |-> t, severity |-> sv, examples |-> ex]

Suggestion(c, t) == [category |-> c, title |-> t, actionable |-> TRUE]

\* A risk factor whose impact is always written as medium.
RiskFactorMedium(t, i) == [type |-> t, impact |-> "medium"]

RiskFactor(t, i) == [type |-> t, impact |-> i]

\* threw: the guard of the detector raised an error.
Scanned(st, p, m) ==
  [st EXCEPT !.lastIndex[p] = m.lastIndex, !.counts[p] = Len(m.matches),
             !.threw = @ \/ ExceedsRaises(m.matches)]

TooManyQuestions(st, m) ==
  Scanned(IF Exceeds(m.matches, 2)
          THEN [st EXCEPT
                  !.issues = Append(@, Issue("communication", "Too Many Questions",
                                             "medium", Slice(m.matches, 2))),
                  !.suggestions = Append(@, Suggestion("Communication",
                                                       "Ask one question at a time"))]
          ELSE st,
          "excessive_questions", m)

ShortResponses(st, m) ==
  Scanned(IF Exceeds(m.matches, 3)
          THEN [st EXCEPT
                  !.issues = Append(@, Issue("interest", "Received Short Responses",
                                             "high", Slice(m.matches, 3)))]
          ELSE st,
          "one_word_responses", m)

Interrupting(st, m) ==
  Scanned(IF Exceeds(m.matches, 2)
          THEN [st EXCEPT
                  !.issues = Append(@, Issue("communication", "Interrupting or Contradicting",
                                             "medium", Slice(m.matches, 2)))]
          ELSE st,
          "interrupting", m)

analyzeCommunicationStyle(text, st) ==
  Interrupting(
    ShortResponses(
      TooManyQuestions(st,
        StringMatch("excessive_questions", text, st.lastIndex["excessive_questions"])),
      StringMatch("one_word_responses", text, st.lastIndex["one_word_responses"])),
    StringMatch("interrupting", text, st.lastIndex["interrupting"]))

FloodingExample == <<"Multiple consecutive short messages">>

MessageFlooding(st, m) ==
  Scanned(IF Exceeds(m.matches, 1)
          THEN [st EXCEPT
                  !.issues = Append(@, Issue("timing", "Message Flooding",
                                             "medium", <<FloodingExample>>)),
                  !.suggestions = Append(@, Suggestion("Timing",
                                                       "Give them space to respond"))]
          ELSE st,
          "rapid_fire_messages", m)

DelayedResponses(st, m) ==
  Scanned(IF Exceeds(m.matches, 0)
          THEN [st EXCEPT
                  !.issues = Append(@, Issue("timing", "Inconsistent Response Times",
                                             "low", Slice(m.matches, 2)))]
          ELSE st,
          "delayed_responses", m)

analyzeTimingIssues(text, st) ==
  DelayedResponses(
    MessageFlooding(st,
      StringMatch("rapid_fire_messages", text, st.lastIndex["rapid_fire_messages"])),
    StringMatch("delayed_responses", text, st.lastIndex["delayed_responses"]))

Oversharing(st, m) ==
  Scanned(IF Exceeds(m.matches, 1)
          THEN [st EXCEPT
                  !.issues = Append(@, Issue("boundaries", "Oversharing Personal Information",
                                             "high", Slice(m.matches, 2))),
                  !.riskFactors = Append(@, RiskFactor("Boundary Issues", "high"))]
          ELSE st,
          "personal_details", m)

PushyLanguage(st, m) ==
  Scanned(IF Exceeds(m.matches, 2)
          THEN [st EXCEPT
                  !.issues = Append(@, Issue("boundaries", "Pushy or Controlling Language",
                                             "high", Slice(m.matches, 2)))]
          ELSE st,
          "pushy_behavior", m)

InappropriateQuestions(st, m) ==
  Scanned(IF Exceeds(m.matches, 0)
          THEN [st EXCEPT
                  !.riskFactors = Append(@, RiskFactor("Inappropriate Questions", "high"))]
          ELSE st,
          "inappropriate_questions", m)

analyzeBoundaries(text, st) ==
  InappropriateQuestions(
    PushyLanguage(
      Oversharing(st,
        StringMatch("personal_details", text, st.lastIndex["personal_details"])),
      StringMatch("pushy_behavior", text, st.lastIndex["pushy_behavior"])),
    StringMatch("inappropriate_questions", text, st.lastIndex["inappropriate_questions"]))

NegativityExample == <<"Multiple negative expressions detected">>

EnthusiasmStrength == "Showed genuine enthusiasm and excitement"

\* The detector pushing one strength for every marker found.
EnthusiasmPerMarker(st, m) ==
  Scanned(IF Exceeds(m.matches, 2)
          THEN [st EXCEPT !.strengths =
                  @ \o [k \in 1..Len(m.matches) |-> EnthusiasmStrength]]
          ELSE st,
          "enthusiasm_markers", m)

Enthusiasm(st, m) ==
  Scanned(IF Exceeds(m.matches, 2)
          THEN [st EXCEPT !.strengths = Append(@, EnthusiasmStrength)]
          ELSE st,
          "enthusiasm_markers", m)

Disengagement(st, m) ==
  Scanned(IF Exceeds(m.matches, 1)
          THEN [st EXCEPT
                  !.issues = Append(@, Issue("interest", "Signs of Disengagement",
                                             "high", Slice(m.matches, 2)))]
          ELSE st,
          "disengagement", m)

ExcessiveNegativity(st, m) ==
  Scanned(IF Exceeds(m.matches, 3)
          THEN [st EXCEPT
                  !.issues = Append(@, Issue("communication", "Excessive Negativity",
                                             "medium", <<NegativityExample>>)),
                  !.suggestions = Append(@, Suggestion("Tone",
                                            "Balance negative topics with positive ones"))]
          ELSE st,
          "negative_venting", m)

\* The check looking at the engagement pass's own interest issue only.
SomeInterestOwnPass(issues) ==
  \E k \in 1..Len(issues) : issues[k].title = "Signs of Disengagement"

\* issues.some(issue => issue.category === 'interest')
SomeInterest(issues) == \E k \in 1..Len(issues) : issues[k].category = "interest"

EngagementSuggestion(st) ==
  IF SomeInterest(st.issues)
  THEN [st EXCEPT
          !.suggestions = Append(@, Suggestion("Engagement",
                                               "Ask engaging, open-ended questions"))]
  ELSE st

analyzeEngagement(text, st) ==
  EngagementSuggestion(
    ExcessiveNegativity(
      Disengagement(
        Enthusiasm(st,
          StringMatch("enthusiasm_markers", text, st.lastIndex["enthusiasm_markers"])),
        StringMatch("disengagement", text, st.lastIndex["disengagement"])),
      StringMatch("negative_venting", text, st.lastIndex["negative_venting"])))

-----------------------------------------------------------------------------
\* Score

\* The penalties with medium and low exchanged.
PenaltySwapped(severity) ==
  CASE severity = "high" -> 15
    [] severity = "medium" -> 3
    [] severity = "low" -> 8
    [] OTHER -> 0

Penalty(severity) ==
  CASE severity = "high" -> 15
    [] severity = "medium" -> 8
    [] severity = "low" -> 3
    [] OTHER -> 0

\* The loop left after its first issue (a break that leaves the loop).
DeductFirstOnly(issues, k, score) ==
  IF k > Len(issues) THEN score
  ELSE score - Penalty(issues[k].severity)

RECURSIVE Deduct(_, _, _)
\* issues.forEach(issue => score -= penalty), from element k on
Deduct(issues, k, score) ==
  IF k > Len(issues) THEN score
  ELSE Deduct(issues, k + 1, score - Penalty(issues[k].severity))

MathMax(a, b) == IF a >= b THEN a ELSE b

MathMin(a, b) == IF a <= b THEN a ELSE b

\* The score without the lower clamp.
calculateScoreNoFloor(issues, strengths) ==
  MathMin(100, Deduct(issues, 1, 85) + Len(strengths) * 5)

\* The score with Math.min and Math.max exchanged.
calculateScoreSwapped(issues, strengths) ==
  MathMin(0, MathMax(100, Deduct(issues, 1, 85) + Len(strengths) * 5))

\* The score with a bonus of 10 for a strength.
calculateScoreBonus10(issues, strengths) ==
  MathMax(0, MathMin(100, Deduct(issues, 1, 85) + Len(strengths) * 10))

\* The score whose clamp lets 1 through as the least value.
calculateScoreFloorOne(issues, strengths) ==
  MathMax(1, MathMin(100, Deduct(issues, 1, 85) + Len(strengths) * 5))

calculateScore(issues, strengths) ==
  MathMax(0, MathMin(100, Deduct(issues, 1, 85) + Len(strengths) * 5))

-----------------------------------------------------------------------------
\* analyze

ZeroIndex == [p \in PatternNames |-> 0]

ZeroCount == [p \in PatternNames |-> 0]

\* The empty arrays analyze starts with; li are the pattern objects' cursors.
NewArrays(li) ==
  [issues |-> <<>>, suggestions |-> <<>>, riskFactors |-> <<>>,
   strengths |-> <<>>, lastIndex |-> li, counts |-> ZeroCount,
   threw |-> FALSE]

\* The returned object, the cursors the call leaves behind, the match counts,
\* and whether the call ended with an error instead of returning.
Returned(st) ==
  [result |-> [overallScore |-> calculateScore(st.issues, st.strengths),
               issues |-> st.issues, strengths |-> st.strengths,
               suggestions |-> st.suggestions, riskFactors |-> st.riskFactors],
   lastIndex |-> st.lastIndex,
   counts |-> st.counts,
   threw |-> st.threw]

\* analyze with the engagement pass run first.
analyzeEngagementFirst(text, li) ==
  Returned(
    analyzeBoundaries(text,
      analyzeTimingIssues(text,
        analyzeCommunicationStyle(text,
          analyzeEngagement(text, NewArrays(li))))))

\* The call analyze(text) when the pattern objects' cursors are li.
analyze(text, li) ==
  Returned(
    analyzeEngagement(text,
      analyzeBoundaries(text,
        analyzeTimingIssues(text,
          analyzeCommunicationStyle(text, NewArrays(li))))))

-----------------------------------------------------------------------------
\* LLMAnalyzer (utils/llmAnalyzer.ts).  An error message is the list of the
\* parts a template literal joins; "" stands for an absent or empty string,
\* which || treats alike.

\* null
Null == [null |-> TRUE]

\* A call that returned value, and a call that threw new Error(message).
Success(value) == [ok |-> TRUE, value |-> value]

Failure(message) == [ok |-> FALSE, message |-> message]

AnalysisFailedMessage ==
  <<"Failed to analyze conversation with AI. Please check your API configuration.">>

UnsupportedProviderMessage == <<"Unsupported LLM provider">>

EndpointRequiredMessage == <<"Custom API endpoint is required">>

\* What the runtime throws: fetch that cannot reach the provider, JSON.parse
\* or response.json() on text that is no JSON, a property read of undefined.
FetchFailedMessage == <<"Failed to fetch">>

SyntaxErrorMessage == <<"Unexpected token in JSON">>

TypeErrorMessage == <<"Cannot read properties of undefined">>

\* The configurations the settings dialog can store: it asks for an API key
\* only, so a custom provider may come without an endpoint.
Configs ==
  {[provider |-> "openai", endpoint |-> ""],
   [provider |-> "anthropic", endpoint |-> ""],
   [provider |-> "custom", endpoint |-> ""],
   [provider |-> "custom", endpoint |-> "https://llm.example/v1/chat"]}

\* A reply text that follows the prompt.
FullDoc ==
  [overallScore |-> 72, issues |-> <<>>, strengths |-> <<>>,
   suggestions |-> <<>>, riskFactors |-> <<>>,
   summary |-> "They lost interest early."]

\* The texts a provider may answer with: parses says whether JSON.parse
\* accepts the text, value is what it then gives.
Docs ==
  {[parses |-> FALSE, value |-> Null],
   [parses |-> TRUE, value |-> Null],
   [parses |-> TRUE, value |-> FullDoc],
   [parses |-> TRUE, value |-> [analysisMethod |-> "local"] @@ FullDoc],
   [parses |-> TRUE, value |-> [overallScore |-> 150, summary |-> ""]],
   [parses |-> TRUE,
    value |-> [overallScore |-> 72, issues |-> <<>>, strengths |-> <<>>,
               suggestions |-> <<>>, riskFactors |-> <<>>]]}

\* A reply that carries no text at all.
NoDoc == [parses |-> FALSE, value |-> Null, absent |-> TRUE]

ProviderMessages == {"", "Incorrect API key provided"}

\* What comes back for a request.  kind "rejected": fetch rejects; "status":
\* a response that is not ok, whose body is JSON or not and holds
\* error.message or not; "ok": a response whose body is JSON or not and
\* holds the reply text where the provider's format puts it, or does not.
Replies ==
  {[kind |-> "rejected", statusText |-> "", json |-> FALSE, message |-> "",
    content |-> NoDoc]}
  \cup {[kind |-> "status", statusText |-> "Unauthorized", json |-> j,
         message |-> m, content |-> NoDoc] :
           j \in BOOLEAN, m \in ProviderMessages}
  \cup {[kind |-> "ok", statusText |-> "OK", json |-> j, message |-> "",
         content |-> d] : j \in BOOLEAN, d \in Docs \cup {NoDoc}}

NoReply ==
  [kind |-> "none", statusText |-> "", json |-> FALSE, message |-> "",
   content |-> NoDoc]

\* a || b on strings
OrElse(a, b) == IF a # "" THEN a ELSE b

\* callOpenAI and callAnthropic once fetch has settled; name is the prefix
\* of the provider's error message.
callProvider(name, reply) ==
  CASE reply.kind = "rejected" -> Failure(FetchFailedMessage)
    [] reply.kind = "status" ->
         IF ~reply.json THEN Failure(SyntaxErrorMessage)
         ELSE Failure(<<name, OrElse(reply.message, "Unknown error")>>)
    [] OTHER ->
         IF ~reply.json THEN Failure(SyntaxErrorMessage)
         ELSE IF reply.content = NoDoc THEN Failure(TypeErrorMessage)
         ELSE Success(reply.content)

callOpenAI(reply) == callProvider("OpenAI API error: ", reply)

callAnthropic(reply) == callProvider("Anthropic API error: ", reply)

\* callCustomAPI once fetch has settled; a body without response, content
\* and text makes it return undefined.
callCustomAPI(reply) ==
  CASE reply.kind = "rejected" -> Failure(FetchFailedMessage)
    [] reply.kind = "status" ->
         Failure(<<"Custom API error: ", reply.statusText>>)
    [] OTHER ->
         IF ~reply.json THEN Failure(SyntaxErrorMessage)
         ELSE Success(reply.content)

\* Whether callLLMAPI gets as far as fetch for this configuration.
Fetches(config) ==
  CASE config.provider = "openai" -> TRUE
    [] config.provider = "anthropic" -> TRUE
    [] config.provider = "custom" -> config.endpoint # ""
    [] OTHER -> FALSE

\* What callLLMAPI throws when it does not get as far as fetch.
callLLMAPIRefused(config) ==
  IF config.provider = "custom"
  THEN Failure(EndpointRequiredMessage)
  ELSE Failure(UnsupportedProviderMessage)

\* callLLMAPI once fetch has settled.
callLLMAPI(config, reply) ==
  CASE config.provider = "openai" -> callOpenAI(reply)
    [] config.provider = "anthropic" -> callAnthropic(reply)
    [] config.provider = "custom" -> callCustomAPI(reply)
    [] OTHER -> Failure(UnsupportedProviderMessage)

\* { analysisMethod: 'llm', ...analysis }: the reply's own field wins.
TaggedFirst(analysis) ==
  IF analysis = Null THEN [analysisMethod |-> "llm"]
  ELSE analysis @@ [analysisMethod |-> "llm"]

\* { ...analysis, analysisMethod: 'llm' }: the own fields of analysis (null
\* has none), then analysisMethod.
Tagged(analysis) ==
  IF analysis = Null THEN [analysisMethod |-> "llm"]
  ELSE [analysisMethod |-> "llm"] @@ analysis

\* The catch of analyzeWithLLM: whatever was thrown is logged and a new
\* error with the fixed message is thrown.
Rethrown(inner) == Failure(AnalysisFailedMessage)

\* analyzeWithLLM after callLLMAPI ended as called.
analyzeWithLLM(called) ==
  IF ~called.ok THEN Rethrown(called)
  ELSE IF ~called.value.parses THEN Rethrown(Failure(SyntaxErrorMessage))
  ELSE Success(Tagged(called.value.value))

-----------------------------------------------------------------------------
\* Callers of analyze: the argument is put together from pieces of text.

DenseLine == <<"y", "o", "u", " ", "s", "h", "o", "u", "l", "d", " ", "h", "a", "t", "e", " ", "m", "y", " ", "e", "x", " ", "b", "u", "t", " ", "b", "u", "s", "y", " ", "?", "?", "?", " ", "o", "k", "\n">>

Chunk ==
  [P |-> DenseLine \o DenseLine \o DenseLine \o DenseLine \o <<"\n">>,
   Q |-> DenseLine \o DenseLine \o DenseLine,
   S |-> DenseLine,
   D |-> <<"B", "e", "e", "n", " ", "b", "u", "s", "y", "\n">>,
   E |-> <<"L", "O", "V", "E", "!", "!", " ">>,
   I |-> <<"a", "r", "e", " ", "y", "o", "u", " ", "s", "i", "n", "g", "l", "e", " ">>,
   K |-> <<"m", "y", " ", "e", "x", " ">>,
   O |-> <<"o", "k", "\n", "N", "o", ".", "\n">>]

ChunkNames == DOMAIN Chunk

NoResult ==
  [overallScore |-> 0, issues |-> <<>>, strengths |-> <<>>,
   suggestions |-> <<>>, riskFactors |-> <<>>]

VARIABLES
  text,        \* the argument of the next or the last call of analyze
  nchunks,     \* pieces the argument was put together from
  lastIndex,   \* lastIndex of each RegExp object of PATTERNS
  pc,          \* "input": no call on this text yet; "returned": analyze
               \* returned; "threw": it raised an error
  result,      \* the object the last call returned
  matchCount,  \* per pattern, the number of matches the last call saw
  calls,       \* calls of analyze so far
  issuesArg,   \* calculateScore taken alone: its argument issues
  strengthsArg,\* and its argument strengths
  scored,      \* calculateScore has returned
  scoreOut     \* what it returned

VARIABLES
  analysisResult, \* App: the result shown, or null
  isAnalyzing,    \* App: an analysis is running
  error,          \* App: the message shown, or null
  inputText,      \* ConversationInput: the text typed
  llmConfig,      \* ConversationInput: the provider configuration, or null
  useLLM,         \* ConversationInput: the AI analysis is selected
  storage,        \* localStorage item 'llm-config', or null
  job,            \* the call of handleAnalyze: what it awaits, its arguments
  requests,       \* provider requests made by that call
  reply,          \* what the provider answered to that call
  logged          \* what analyzeWithLLM gave console.error last

analyzerVars == <<text, nchunks, lastIndex, pc, result, matchCount, calls>>

scoreVars == <<issuesArg, strengthsArg, scored, scoreOut>>

appVars == <<analysisResult, isAnalyzing, error, inputText, llmConfig, useLLM,
             storage, job, requests, reply, logged>>

vars == <<text, nchunks, lastIndex, pc, result, matchCount, calls,
          issuesArg, strengthsArg, scored, scoreOut,
          analysisResult, isAnalyzing, error, inputText, llmConfig, useLLM,
          storage, job, requests, reply, logged>>

\* error is null: the empty list of message parts (if (error) is false for
\* null as for the empty string).
NoError == <<>>

\* No call of handleAnalyze is under way.
NoJob == [awaiting |-> "none", text |-> <<>>, useLLM |-> FALSE, config |-> Null]

Init ==
  /\ text = <<>>
  /\ nchunks = 0
  /\ lastIndex = ZeroIndex
  /\ pc = "input"
  /\ result = NoResult
  /\ matchCount = ZeroCount
  /\ calls = 0
  /\ issuesArg = <<>>
  /\ strengthsArg = <<>>
  /\ scored = FALSE
  /\ scoreOut = 0
  /\ analysisResult = Null
  /\ isAnalyzing = FALSE
  /\ error = NoError
  /\ inputText = <<>>
  /\ llmConfig = Null
  /\ useLLM = FALSE
  /\ storage = Null
  /\ job = NoJob
  /\ requests = 0
  /\ reply = NoReply
  /\ logged = <<>>

Type(c) ==
  /\ pc = "input"
  /\ nchunks < MaxChunks
  /\ text' = text \o Chunk[c]
  /\ nchunks' = nchunks + 1
  /\ UNCHANGED <<lastIndex, pc, result, matchCount, calls>>
  /\ UNCHANGED scoreVars
  /\ UNCHANGED appVars

\* r is what the call gives back.
AnalyzeReturns(r) ==
  /\ pc' = IF r.threw THEN "threw" ELSE "returned"
  /\ result' = IF r.threw THEN NoResult ELSE r.result
  /\ lastIndex' = r.lastIndex
  /\ matchCount' = r.counts

Analyze ==
  /\ pc = "input"
  /\ calls < MaxCalls
  /\ AnalyzeReturns(analyze(text, lastIndex))
  /\ calls' = calls + 1
  /\ UNCHANGED <<text, nchunks>>
  /\ UNCHANGED scoreVars
  /\ UNCHANGED appVars

NextCall ==
  /\ pc \in {"returned", "threw"}
  /\ calls < MaxCalls
  /\ pc' = "input"
  /\ text' = <<>>
  /\ nchunks' = 0
  /\ result' = NoResult
  /\ matchCount' = ZeroCount
  /\ UNCHANGED <<lastIndex, calls>>
  /\ UNCHANGED scoreVars
  /\ UNCHANGED appVars

Next ==
  \/ \E c \in ChunkNames : Type(c)
  \/ Analyze
  \/ NextCall

Spec == Init /\ [][Next]_vars

-----------------------------------------------------------------------------
\* calculateScore taken alone, on issue lists of every mix of severities.

Severities == {"low", "medium", "high"}

PushIssue(sv) ==
  /\ ~scored
  /\ Len(issuesArg) < MaxIssues
  /\ issuesArg' = Append(issuesArg, Issue("communication", "Issue", sv, <<>>))
  /\ UNCHANGED <<strengthsArg, scored, scoreOut>>
  /\ UNCHANGED analyzerVars
  /\ UNCHANGED appVars

PushStrength ==
  /\ ~scored
  /\ Len(strengthsArg) < MaxStrengths
  /\ strengthsArg' = Append(strengthsArg, EnthusiasmStrength)
  /\ UNCHANGED <<issuesArg, scored, scoreOut>>
  /\ UNCHANGED analyzerVars
  /\ UNCHANGED appVars

Score ==
  /\ ~scored
  /\ scoreOut' = calculateScore(issuesArg, strengthsArg)
  /\ scored' = TRUE
  /\ UNCHANGED <<issuesArg, strengthsArg>>
  /\ UNCHANGED analyzerVars
  /\ UNCHANGED appVars

ScoreNext ==
  \/ \E sv \in Severities : PushIssue(sv)
  \/ PushStrength
  \/ Score

ScoreSpec == Init /\ [][ScoreNext]_vars

-----------------------------------------------------------------------------
\* App and ConversationInput (App.tsx, components/ConversationInput.tsx).
\* The form is on screen while App shows neither an error nor a result.

\* The texts typed into the form.
AppTexts == {<<>>, <<" ", "\n">>, Chunk.I, Chunk.O \o Chunk.K \o Chunk.K}

\* inputText is the empty string: no trim.
BlankUntrimmed(s) == s = <<>>

\* inputText.trim() is the empty string
Blank(s) == \A k \in 1..Len(s) : s[k] \in WhiteSpace

ConfigMissingMessage ==
  <<"LLM configuration not found. Please configure your AI settings.">>

\* The form staying on the page beside a result: only the error view
\* replaces it.
InputShownBesideResult == error = NoError

\* App renders ConversationInput
InputShown == error = NoError /\ analysisResult = Null

\* The submit button disabled without regard to a running analysis.
SubmitDisabledWhileIdle == Blank(inputText) \/ (useLLM /\ llmConfig = Null)

\* The submit button's disabled attribute
SubmitDisabled == Blank(inputText) \/ isAnalyzing \/ (useLLM /\ llmConfig = Null)

\* handleAnalyze without the test of savedConfig: JSON.parse(null) is null,
\* and reading config.provider of null throws inside analyzeWithLLM.
handleAnalyzeUnchecked(llm, savedConfig) ==
  IF ~llm THEN [awaiting |-> "timer", requests |-> 0, thrown |-> Null]
  ELSE IF savedConfig = Null
  THEN [awaiting |-> "none", requests |-> 0,
        thrown |-> analyzeWithLLM(Failure(TypeErrorMessage))]
  ELSE IF Fetches(savedConfig)
  THEN [awaiting |-> "fetch", requests |-> 1, thrown |-> Null]
  ELSE [awaiting |-> "none", requests |-> 0,
        thrown |-> analyzeWithLLM(callLLMAPIRefused(savedConfig))]

\* The try block of handleAnalyze as far as it gets without waiting for the
\* timer or the provider: what it then awaits, the requests it has made,
\* what it has thrown (null: nothing).
handleAnalyze(llm, savedConfig) ==
  IF ~llm THEN [awaiting |-> "timer", requests |-> 0, thrown |-> Null]
  ELSE IF savedConfig = Null
  THEN [awaiting |-> "none", requests |-> 0,
        thrown |-> Failure(ConfigMissingMessage)]
  ELSE IF Fetches(savedConfig)
  THEN [awaiting |-> "fetch", requests |-> 1, thrown |-> Null]
  ELSE [awaiting |-> "none", requests |-> 0,
        thrown |-> analyzeWithLLM(callLLMAPIRefused(savedConfig))]

\* A catch that falls back to an empty result.
CaughtWithFallback(message) ==
  [analysisResult |-> [analysisMethod |-> "local"] @@ NoResult,
   error |-> message, isAnalyzing |-> FALSE]

\* catch and finally of handleAnalyze
Caught(message) ==
  [analysisResult |-> analysisResult, error |-> message, isAnalyzing |-> FALSE]

\* setAnalysisResult(result) without the finally block.
ResolvedNoFinally(r) ==
  [analysisResult |-> r, error |-> error, isAnalyzing |-> isAnalyzing]

\* setAnalysisResult(result) and finally
Resolved(r) ==
  [analysisResult |-> r, error |-> error, isAnalyzing |-> FALSE]

Outcome(o) == IF o.ok THEN Resolved(o.value) ELSE Caught(o.message)

\* The state App is left with.
Settled(a) ==
  /\ analysisResult' = a.analysisResult
  /\ error' = a.error
  /\ isAnalyzing' = a.isAnalyzing

\* The textarea, disabled while an analysis runs.
TypeInput(t) ==
  /\ InputShown
  /\ ~isAnalyzing
  /\ inputText' = t
  /\ UNCHANGED <<analysisResult, isAnalyzing, error, llmConfig, useLLM,
                 storage, job, requests, reply, logged>>
  /\ UNCHANGED analyzerVars
  /\ UNCHANGED scoreVars

\* handleDrop and the file reader's onload; the drop area is not disabled.
DropFile(t) ==
  /\ InputShown
  /\ inputText' = t
  /\ UNCHANGED <<analysisResult, isAnalyzing, error, llmConfig, useLLM,
                 storage, job, requests, reply, logged>>
  /\ UNCHANGED analyzerVars
  /\ UNCHANGED scoreVars

\* handleLLMConfigSave
SaveConfig(c) ==
  /\ InputShown
  /\ llmConfig' = c
  /\ storage' = c
  /\ useLLM' = TRUE
  /\ UNCHANGED <<analysisResult, isAnalyzing, error, inputText, job,
                 requests, reply, logged>>
  /\ UNCHANGED analyzerVars
  /\ UNCHANGED scoreVars

\* The two radio buttons; the AI one is disabled without a configuration.
ChooseMethod(llm) ==
  /\ InputShown
  /\ llm => llmConfig # Null
  /\ useLLM' = llm
  /\ UNCHANGED <<analysisResult, isAnalyzing, error, inputText, llmConfig,
                 storage, job, requests, reply, logged>>
  /\ UNCHANGED analyzerVars
  /\ UNCHANGED scoreVars

\* The item is removed from outside the page (site data cleared, another
\* tab).
StorageRemoved ==
  /\ storage # Null
  /\ storage' = Null
  /\ UNCHANGED <<analysisResult, isAnalyzing, error, inputText, llmConfig,
                 useLLM, job, requests, reply, logged>>
  /\ UNCHANGED analyzerVars
  /\ UNCHANGED scoreVars

\* b is how far handleAnalyze got.
Begun(b) ==
  /\ job' = [awaiting |-> b.awaiting, text |-> inputText,
             useLLM |-> (useLLM /\ llmConfig # Null), config |-> storage]
  /\ requests' = b.requests
  /\ reply' = NoReply
  /\ IF b.thrown = Null
     THEN isAnalyzing' = TRUE /\ error' = NoError /\ UNCHANGED analysisResult
     ELSE Settled(Caught(b.thrown.message))

\* handleSubmit, and handleAnalyze up to its first wait.
Submit ==
  /\ InputShown
  /\ ~SubmitDisabled
  /\ ~Blank(inputText)
  /\ Begun(handleAnalyze(useLLM /\ llmConfig # Null, storage))
  /\ logged' = IF useLLM /\ llmConfig # Null /\ storage # Null /\ ~Fetches(storage)
               THEN callLLMAPIRefused(storage).message ELSE logged
  /\ UNCHANGED <<inputText, llmConfig, useLLM, storage>>
  /\ UNCHANGED analyzerVars
  /\ UNCHANGED scoreVars

\* r is what ConversationAnalyzer.analyze gives for the job's text.
LocalDone(r) ==
  /\ lastIndex' = r.lastIndex
  /\ Settled(IF r.threw THEN Caught(TypeErrorMessage)
             ELSE Resolved([analysisMethod |-> "local"] @@ r.result))

\* The 2 s timer of the local analysis fires.
TimerFires ==
  /\ job.awaiting = "timer"
  /\ LocalDone(analyze(job.text, lastIndex))
  /\ job' = [job EXCEPT !.awaiting = "none"]
  /\ UNCHANGED <<inputText, llmConfig, useLLM, storage, requests, reply, logged>>
  /\ UNCHANGED <<text, nchunks, pc, result, matchCount, calls>>
  /\ UNCHANGED scoreVars

\* called is how callLLMAPI ended.
LLMDone(called) ==
  /\ logged' = IF ~called.ok THEN called.message
               ELSE IF ~called.value.parses THEN SyntaxErrorMessage
               ELSE logged
  /\ Settled(Outcome(analyzeWithLLM(called)))

\* fetch settles with reply r, and analyzeWithLLM and handleAnalyze run on.
ProviderReplies(r) ==
  /\ job.awaiting = "fetch"
  /\ reply' = r
  /\ LLMDone(callLLMAPI(job.config, r))
  /\ job' = [job EXCEPT !.awaiting = "none"]
  /\ UNCHANGED <<inputText, llmConfig, useLLM, storage, requests>>
  /\ UNCHANGED analyzerVars
  /\ UNCHANGED scoreVars

\* handleReset (Try Again, or the reset of the results view); the form is
\* mounted anew and loads the stored configuration.
Reset ==
  /\ ~InputShown
  /\ analysisResult' = Null
  /\ isAnalyzing' = FALSE
  /\ error' = NoError
  /\ inputText' = <<>>
  /\ llmConfig' = storage
  /\ useLLM' = (storage # Null)
  /\ job' = NoJob
  /\ requests' = 0
  /\ reply' = NoReply
  /\ UNCHANGED <<storage, logged>>
  /\ UNCHANGED analyzerVars
  /\ UNCHANGED scoreVars

AppNext ==
  \/ \E t \in AppTexts : TypeInput(t)
  \/ \E t \in AppTexts : DropFile(t)
  \/ \E c \in Configs : SaveConfig(c)
  \/ \E llm \in BOOLEAN : ChooseMethod(llm)
  \/ StorageRemoved
  \/ Submit
  \/ TimerFires
  \/ \E r \in Replies : ProviderReplies(r)
  \/ Reset

AppSpec == Init /\ [][AppNext]_vars

\* The application with the 'llm-config' item written by nothing but the
\* application itself.
AppOwnNext ==
  \/ \E t \in AppTexts : TypeInput(t)
  \/ \E t \in AppTexts : DropFile(t)
  \/ \E c \in Configs : SaveConfig(c)
  \/ \E llm \in BOOLEAN : ChooseMethod(llm)
  \/ Submit
  \/ TimerFires
  \/ \E r \in Replies : ProviderReplies(r)
  \/ Reset

AppOwnSpec == Init /\ [][AppOwnNext]_vars

\* TimerFires as job shows it: the wait on the timer is over.
TimerElapses ==
  /\ job.awaiting = "timer"
  /\ job' = [job EXCEPT !.awaiting = "none"]

\* The 2 s timer fires once set; the provider's request is taken to settle,
\* fulfilled or rejected, once made.
AppFairSpec ==
  /\ Init
  /\ [][AppNext]_vars
  /\ WF_job(TimerElapses)
  /\ WF_vars(\E r \in Replies : ProviderReplies(r))

-----------------------------------------------------------------------------
\* Properties

HasIssue(r, t) == \E k \in 1..Len(r.issues) : r.issues[k].title = t

HasRisk(r, t) == \E k \in 1..Len(r.riskFactors) : r.riskFactors[k].type = t

NumSeverity(issues, sv) ==
  Cardinality({k \in 1..Len(issues) : issues[k].severity = sv})

\* 85 - 15*H - 8*M - 3*L + 5*S, before clamping
RawScore(issues, strengths) ==
  85 - 15 * NumSeverity(issues, "high") - 8 * NumSeverity(issues, "medium")
     - 3 * NumSeverity(issues, "low") + 5 * Len(strengths)

Clamped(x) == IF x < 0 THEN 0 ELSE IF x > 100 THEN 100 ELSE x

\* C1: every result analyze returns has an integer overallScore with
\* 0 <= overallScore <= 100, whatever issues and strengths were detected.
C1_ScoreInRange ==
  pc = "returned" => result.overallScore \in 0..100

\* A returned result whose penalties exceed baseline plus bonus.
C1_Witness ==
  /\ pc = "returned"
  /\ RawScore(result.issues, result.strengths) < 0
  /\ result.overallScore = 0

\* C2: analyze of the empty string returns overallScore 85 and empty issues,
\* strengths, suggestions and riskFactors.
C2_EmptyString ==
  (pc = "returned" /\ text = <<>>) =>
     result = [overallScore |-> 85, issues |-> <<>>, strengths |-> <<>>,
               suggestions |-> <<>>, riskFactors |-> <<>>]

C2_Witness ==
  pc = "returned" /\ text = <<>> /\ calls >= 1 /\ result.overallScore = 85

\* C3: after any sequence of earlier calls, analyze(t) returns what a first
\* call analyze(t), made with untouched pattern objects, returns.
C3_NoHiddenState ==
  pc = "returned" => result = analyze(text, ZeroIndex).result

\* A second call, on a text with matches, after a first call on any text.
C3_Witness ==
  pc = "returned" /\ calls = 2 /\ Len(result.issues) >= 2

\* The thresholds as the specification lists them.
Threshold ==
  [excessive_questions |-> 2, one_word_responses |-> 3, interrupting |-> 2,
   rapid_fire_messages |-> 1, delayed_responses |-> 0, personal_details |-> 1,
   pushy_behavior |-> 2, inappropriate_questions |-> 0,
   enthusiasm_markers |-> 2, disengagement |-> 1, negative_venting |-> 3]

\* What the detector of pattern p emits into a result r.
Fired(r, p) ==
  CASE p = "excessive_questions" -> HasIssue(r, "Too Many Questions")
    [] p = "one_word_responses" -> HasIssue(r, "Received Short Responses")
    [] p = "interrupting" -> HasIssue(r, "Interrupting or Contradicting")
    [] p = "rapid_fire_messages" -> HasIssue(r, "Message Flooding")
    [] p = "delayed_responses" -> HasIssue(r, "Inconsistent Response Times")
    [] p = "personal_details" -> HasIssue(r, "Oversharing Personal Information")
    [] p = "pushy_behavior" -> HasIssue(r, "Pushy or Controlling Language")
    [] p = "inappropriate_questions" -> HasRisk(r, "Inappropriate Questions")
    [] p = "enthusiasm_markers" -> r.strengths # <<>>
    [] p = "disengagement" -> HasIssue(r, "Signs of Disengagement")
    [] p = "negative_venting" -> HasIssue(r, "Excessive Negativity")

\* C4: every detector fires if and only if its match count is strictly
\* greater than its threshold; a count equal to the threshold emits nothing
\* (two interrupting markers: no issue; three: the issue).
C4_StrictThresholds ==
  pc = "returned" =>
     \A p \in PatternNames : Fired(result, p) <=> matchCount[p] > Threshold[p]

\* Exactly two interrupting markers and no issue for them, next to a detector
\* that is above its threshold and fired.
C4_Witness ==
  /\ pc = "returned"
  /\ matchCount["interrupting"] = 2
  /\ ~HasIssue(result, "Interrupting or Contradicting")
  /\ matchCount["disengagement"] = 2
  /\ HasIssue(result, "Signs of Disengagement")

\* C5: the returned score is max(0, min(100, 85 - 15*H - 8*M - 3*L + 5*S))
\* for the H, M, L high, medium and low issues and the S strengths returned.
C5_ScoreFormula ==
  pc = "returned" =>
     result.overallScore = Clamped(RawScore(result.issues, result.strengths))

\* A result with issues of all three severities and a strength.
C5_Witness ==
  /\ pc = "returned"
  /\ NumSeverity(result.issues, "high") >= 1
  /\ NumSeverity(result.issues, "medium") >= 1
  /\ NumSeverity(result.issues, "low") >= 1
  /\ Len(result.strengths) = 1

C7_Original ==
  (pc = "returned" /\ matchCount["enthusiasm_markers"] >= 4 /\ result.issues = <<>>) =>
     result.overallScore = 100

\* C7 amended: a text with four or more enthusiasm markers and no issue gets
\* the one fixed strength statement and scores 90, not above 100.
C7_Amended ==
  (pc = "returned" /\ matchCount["enthusiasm_markers"] >= 4 /\ result.issues = <<>>) =>
     /\ result.strengths = <<EnthusiasmStrength>>
     /\ result.overallScore = 90

C7_Witness ==
  /\ pc = "returned"
  /\ matchCount["enthusiasm_markers"] >= 4
  /\ result.issues = <<>>
  /\ result.strengths # <<>>

EngagingTitle == "Ask engaging, open-ended questions"

NumEngaging(r) ==
  Cardinality({k \in 1..Len(r.suggestions) : r.suggestions[k].title = EngagingTitle})

HasInterestIssue(r) ==
  \E k \in 1..Len(r.issues) : r.issues[k].category = "interest"

\* C8: the open-ended-questions suggestion is returned exactly once if some
\* returned issue has category interest, whichever pass raised it, and not at
\* all otherwise.
C8_DerivedSuggestion ==
  pc = "returned" =>
     NumEngaging(result) = IF HasInterestIssue(result) THEN 1 ELSE 0

\* The interest issue comes from the first pass only.
C8_Witness ==
  /\ pc = "returned"
  /\ HasIssue(result, "Received Short Responses")
  /\ ~HasIssue(result, "Signs of Disengagement")
  /\ NumEngaging(result) = 1

OversharingIssue(r) ==
  \E k \in 1..Len(r.issues) :
     /\ r.issues[k].title = "Oversharing Personal Information"
     /\ r.issues[k].category = "boundaries"
     /\ r.issues[k].severity = "high"

BoundaryRisk(r) ==
  \E k \in 1..Len(r.riskFactors) :
     /\ r.riskFactors[k].type = "Boundary Issues"
     /\ r.riskFactors[k].impact = "high"

\* C9: two or more personal-disclosure matches give a boundaries issue of
\* severity high and a risk factor of impact high, and the two are only ever
\* emitted together.
C9_Oversharing ==
  pc = "returned" =>
     /\ matchCount["personal_details"] >= 2 =>
           (OversharingIssue(result) /\ BoundaryRisk(result))
     /\ HasIssue(result, "Oversharing Personal Information") <=> BoundaryRisk(result)
     /\ HasRisk(result, "Boundary Issues") => OversharingIssue(result)

C9_Witness ==
  /\ pc = "returned"
  /\ matchCount["personal_details"] = 2
  /\ OversharingIssue(result)
  /\ BoundaryRisk(result)

\* Pass order 1 to 4, sub-checks in the order listed.
IssueOrder ==
  <<"Too Many Questions", "Received Short Responses",
    "Interrupting or Contradicting", "Message Flooding",
    "Inconsistent Response Times", "Oversharing Personal Information",
    "Pushy or Controlling Language", "Signs of Disengagement",
    "Excessive Negativity">>

Rank(t) == CHOOSE k \in 1..Len(IssueOrder) : IssueOrder[k] = t

\* C10: the returned issues are a subsequence of the fixed order, and no
\* title appears twice.
C10_IssueOrder ==
  pc = "returned" =>
     /\ \A k \in 1..Len(result.issues) :
          \E n \in 1..Len(IssueOrder) : IssueOrder[n] = result.issues[k].title
     /\ \A j, k \in 1..Len(result.issues) :
          j < k => Rank(result.issues[j].title) < Rank(result.issues[k].title)

C10_Witness ==
  pc = "returned" /\ Len(result.issues) >= 8

\* The fields the data model requires of every AnalysisResult (summary is
\* optional free text).
RequiredFields ==
  {"overallScore", "issues", "strengths", "suggestions", "riskFactors",
   "analysisMethod"}

\* C11: the value analyze itself returns is a fully populated AnalysisResult
\* whose analysisMethod is 'local', for every input.
C11_AnalyzeTagsLocal ==
  pc = "returned" =>
     /\ RequiredFields \subseteq DOMAIN result
     /\ result.analysisMethod = "local"

\* The text has none of the enthusiasm markers as the specification lists
\* them: no exclamation point, no upper-case letter, none of the words.
NoListedMarker(s) ==
  /\ \A k \in 1..Len(s) : s[k] # "!" /\ s[k] \notin DOMAIN LowerMap
  /\ \A k \in 1..Len(s) : \A w \in 1..Len(enthusiasm_words) :
        ~LitAt(s, k, enthusiasm_words[w])

\* No detector that emits an issue is above its threshold.
NoIssueDetectorFires ==
  \A p \in PatternNames \ {"inappropriate_questions", "enthusiasm_markers"} :
     matchCount[p] <= Threshold[p]

NumRisk(r, t) ==
  Cardinality({k \in 1..Len(r.riskFactors) : r.riskFactors[k].type = t})

\* C12: a match of the invasive-question detector adds exactly one risk
\* factor of impact high and no issue, and the score is what the issues and
\* strengths give without it; a text on which only that detector fires
\* scores 85 with empty issues.
C12_RiskLeavesScore ==
  (pc = "returned" /\ matchCount["inappropriate_questions"] > 0) =>
     /\ NumRisk(result, "Inappropriate Questions") = 1
     /\ \A k \in 1..Len(result.riskFactors) :
          result.riskFactors[k].type = "Inappropriate Questions" =>
             result.riskFactors[k].impact = "high"
     /\ Len(result.issues) =
          Cardinality({p \in PatternNames : p # "enthusiasm_markers"
                         /\ p # "inappropriate_questions"
                         /\ matchCount[p] > Threshold[p]})
     /\ result.overallScore = Clamped(RawScore(result.issues, result.strengths))
     /\ (NoIssueDetectorFires /\ NoListedMarker(text)) =>
           (result.overallScore = 85 /\ result.issues = <<>>)

\* C13: the fixed strength statement is appended if and only if the text has
\* more than 2 enthusiasm markers (runs of two or more exclamation points,
\* all-caps runs of three or more letters, the listed words); a text of
\* lower-case words with no exclamation point and none of those words gets
\* no strength and no score bonus.
C13_LowercaseNoStrength ==
  (pc = "returned" /\ NoListedMarker(text)) =>
     /\ result.strengths = <<>>
     /\ result.overallScore = Clamped(RawScore(result.issues, <<>>))

\* C14: analyze is total: for every text, the empty one included, the call
\* returns a result and raises no error.
C14_Total ==
  /\ pc \in {"input", "returned"}
  /\ pc = "returned" =>
        /\ DOMAIN result = {"overallScore", "issues", "strengths",
                            "suggestions", "riskFactors"}
        /\ result.overallScore \in Int

\* Calls that returned on a text where some patterns have no match (match
\* gives null) and others have matches, after a call on the empty text.
C14_Witness ==
  /\ pc = "returned"
  /\ calls = 2
  /\ \E p \in PatternNames : matchCount[p] = 0
  /\ \E p \in PatternNames : matchCount[p] > Threshold[p]

\* The list xs rearranged by the permutation p of its positions.
Permute(xs, p) == [k \in 1..Len(xs) |-> xs[p[k]]]

IsHigh(i) == i.severity = "high"

IsMedium(i) == i.severity = "medium"

IsLow(i) == i.severity = "low"

\* The rearrangement with the high issues first, then medium, then low.
BySeverity(issues) ==
  SelectSeq(issues, IsHigh) \o SelectSeq(issues, IsMedium) \o SelectSeq(issues, IsLow)

\* C20: calculateScore gives the same value for every permutation of the
\* same issues with the same strengths.  Lists of up to MaxPermuted issues
\* are compared with each of their permutations; every list is compared with
\* its rearrangement by severity, so two lists that are permutations of each
\* other score the same.
C20_OrderIndependent ==
  scored =>
     /\ scoreOut = calculateScore(BySeverity(issuesArg), strengthsArg)
     /\ Len(issuesArg) <= MaxPermuted =>
           \A p \in Permutations(1..Len(issuesArg)) :
              calculateScore(Permute(issuesArg, p), strengthsArg) = scoreOut

\* A scored list of all three severities that is not in severity order.
C20_Witness ==
  /\ scored
  /\ Len(issuesArg) = MaxPermuted
  /\ \A sv \in Severities : NumSeverity(issuesArg, sv) >= 1
  /\ issuesArg # BySeverity(issuesArg)
  /\ scoreOut > 0

\* The message has the text t among its parts.
Carries(message, t) == \E k \in 1..Len(message) : message[k] = t

\* C15: when the provider answers with a non-success status and its body
\* holds an error message, the failure that reaches the caller of
\* analyzeWithLLM, which App shows, carries that message.
C15_ProviderMessageShown ==
  (job.useLLM /\ job.awaiting = "none" /\ reply.kind = "status"
     /\ reply.json /\ reply.message # ""
     /\ job.config.provider \in {"openai", "anthropic"}) =>
        Carries(error, reply.message)

\* The reply is no result: a rejected fetch, a non-success status, a body or
\* a reply text that is no JSON, a body without the reply text.
BadReply(r) ==
  r.kind # "ok" \/ ~r.json \/ r.content = NoDoc \/ ~r.content.parses

\* The call of handleAnalyze for an AI analysis has ended in one of the
\* failures: no stored configuration, no request possible, a bad reply.
LLMFailed ==
  /\ job.useLLM
  /\ job.awaiting = "none"
  /\ (job.config = Null \/ ~Fetches(job.config) \/ BadReply(reply))

C17_TaggedLLM ==
  (job.useLLM /\ analysisResult # Null) =>
     /\ "analysisMethod" \in DOMAIN analysisResult
     /\ analysisResult.analysisMethod = "llm"

\* The reply said 'local' and the result says 'llm'.
C17_Witness ==
  /\ job.useLLM
  /\ analysisResult # Null
  /\ reply.content.parses
  /\ "analysisMethod" \in DOMAIN reply.content.value
  /\ reply.content.value.analysisMethod = "local"
  /\ analysisResult.analysisMethod = "llm"

\* The shape of the data model with a non-empty summary and a score in range.
WellShaped(r) ==
  /\ RequiredFields \subseteq DOMAIN r
  /\ "summary" \in DOMAIN r
  /\ r.summary # ""
  /\ r.overallScore \in 0..100

\* C18: every result analyzeWithLLM returns has the shape of the data model
\* with a non-empty summary and a score in 0..100; a reply that parses but
\* lacks these makes the call fail instead.
C18_ShapeChecked ==
  (job.useLLM /\ job.awaiting = "none" /\ reply.kind = "ok" /\ reply.json
     /\ reply.content.parses) =>
        IF reply.content.value # Null /\ WellShaped(Tagged(reply.content.value))
        THEN analysisResult # Null /\ WellShaped(analysisResult)
        ELSE analysisResult = Null /\ error # NoError

\* C19: an AI analysis requested while nothing is stored under 'llm-config'
\* fails with the configuration-missing message, makes no provider request,
\* sets no result and ends with isAnalyzing false.
C19_ConfigMissing ==
  (job.useLLM /\ job.awaiting = "none" /\ job.config = Null) =>
     /\ error = ConfigMissingMessage
     /\ requests = 0
     /\ reply = NoReply
     /\ analysisResult = Null
     /\ ~isAnalyzing

\* The form still holds a configuration, the stored one is gone, and the
\* analysis has failed.
C19_Witness ==
  /\ job.useLLM
  /\ job.awaiting = "none"
  /\ job.config = Null
  /\ llmConfig # Null
  /\ storage = Null
  /\ error = ConfigMissingMessage

-----------------------------------------------------------------------------
\* The issues whose examples are taken from the matches: the pattern behind
\* each title and the number of examples the specification allows.
ExampleLimit ==
  [excessive_questions |-> 2, one_word_responses |-> 3, interrupting |-> 2,
   delayed_responses |-> 2, personal_details |-> 2, pushy_behavior |-> 2,
   disengagement |-> 2]

TitleOf ==
  [excessive_questions |-> "Too Many Questions",
   one_word_responses |-> "Received Short Responses",
   interrupting |-> "Interrupting or Contradicting",
   delayed_responses |-> "Inconsistent Response Times",
   personal_details |-> "Oversharing Personal Information",
   pushy_behavior |-> "Pushy or Controlling Language",
   disengagement |-> "Signs of Disengagement"]

\* ex is the prefix of found of length min(limit, Len(found)).
PrefixOf(ex, found, limit) ==
  /\ Len(ex) = (IF Len(found) < limit THEN Len(found) ELSE limit)
  /\ \A k \in 1..Len(ex) : ex[k] = found[k]

\* C21: the examples of an issue taken from matches are the first
\* min(limit, count) matches of its pattern in the text, in text order, with
\* limit 3 for Received Short Responses and 2 for the six others; Message
\* Flooding and Excessive Negativity carry one fixed placeholder each.
C21_ExamplePrefix ==
  pc = "returned" =>
    \A k \in 1..Len(result.issues) :
      /\ \A p \in DOMAIN TitleOf :
           result.issues[k].title = TitleOf[p] =>
             PrefixOf(result.issues[k].examples,
                      StringMatch(p, text, 0).matches, ExampleLimit[p])
      /\ result.issues[k].title = "Message Flooding" =>
           result.issues[k].examples = <<FloodingExample>>
      /\ result.issues[k].title = "Excessive Negativity" =>
           result.issues[k].examples = <<NegativityExample>>
      /\ result.issues[k].title \in
           {TitleOf[p] : p \in DOMAIN TitleOf}
             \cup {"Message Flooding", "Excessive Negativity"}

\* A result with an issue that has more matches than its limit, one that has
\* fewer matches than its limit, and a placeholder issue.
C21_Witness ==
  /\ pc = "returned"
  /\ \E p \in DOMAIN TitleOf :
       HasIssue(result, TitleOf[p]) /\ matchCount[p] > ExampleLimit[p]
  /\ \E p \in DOMAIN TitleOf :
       HasIssue(result, TitleOf[p]) /\ matchCount[p] < ExampleLimit[p]
  /\ HasIssue(result, "Excessive Negativity")

\* C22: analyze never returns more than one strength, so the score never
\* exceeds 90 (85 plus one bonus of 5) and the sum the upper clamp is applied
\* to is below 100: min(100, x) never changes x.
C22_OneStrength ==
  pc = "returned" =>
    /\ Len(result.strengths) <= 1
    /\ result.overallScore <= 90
    /\ RawScore(result.issues, result.strengths) <= 90
    /\ MathMin(100, RawScore(result.issues, result.strengths))
         = RawScore(result.issues, result.strengths)

\* Far more enthusiasm markers than the threshold, on a second call of
\* analyze: still one strength, and the score at its maximum of 90.
C22_Witness ==
  /\ pc = "returned"
  /\ calls = 2
  /\ matchCount["enthusiasm_markers"] >= 4
  /\ Len(result.strengths) = 1
  /\ result.overallScore = 90

-----------------------------------------------------------------------------
\* C23: error and analysisResult are never both set.  A step that sets the
\* result leaves the error null, a step that sets the error leaves the result
\* null, and the step out of the error or the results view (handleReset)
\* clears both and isAnalyzing.
C23_ErrorOrResult ==
  [][/\ ~(error' # NoError /\ analysisResult' # Null)
     /\ (analysisResult' # analysisResult /\ analysisResult' # Null) =>
          (error' = NoError /\ error = NoError /\ ~isAnalyzing')
     /\ (error' # error /\ error' # NoError) =>
          (analysisResult' = Null /\ analysisResult = Null /\ ~isAnalyzing')
     /\ (~InputShown /\ InputShown') =>
          (analysisResult' = Null /\ error' = NoError /\ ~isAnalyzing')]_vars

\* A result on the page after an earlier analysis had failed and been reset:
\* the failure's message is still in the log, the error is gone.
C23_Witness ==
  /\ analysisResult # Null
  /\ error = NoError
  /\ ~isAnalyzing
  /\ logged # <<>>

-----------------------------------------------------------------------------
\* handleAnalyze has ended: nothing is awaited, isAnalyzing is false and
\* exactly one of analysisResult and error is set.
Ended ==
  /\ job.awaiting = "none"
  /\ ~isAnalyzing
  /\ (analysisResult # Null) # (error # NoError)

\* C24: every analysis handleAnalyze starts, local or LLM, eventually ends
\* with isAnalyzing false and exactly one of analysisResult and error set,
\* given that the timer fires and the provider's request settles.
C24_AnalysisEnds == isAnalyzing ~> Ended

\* An LLM analysis whose request was made and fulfilled has ended with a
\* result.
C24_Witness ==
  /\ Ended
  /\ job.useLLM
  /\ requests = 1
  /\ reply.kind = "ok"
  /\ analysisResult # Null

-----------------------------------------------------------------------------
\* C25: at most one analysis is in flight.  isAnalyzing is true exactly
\* while a handleAnalyze awaits; in such a state the text area and the submit
\* control are disabled and the form, not the result or the error view, is
\* shown, so that neither handleSubmit nor handleReset can run; the job
\* changes only by its own completion, and analysisResult, error and
\* isAnalyzing change only with that completion, which therefore finds them
\* as its own start left them.
C25_OneInFlight ==
  [][/\ isAnalyzing <=> job.awaiting # "none"
     /\ isAnalyzing =>
          /\ SubmitDisabled
          /\ InputShown
          /\ ~ENABLED Submit
          /\ ~ENABLED Reset
          /\ \A t \in AppTexts : ~ENABLED TypeInput(t)
          /\ \/ job' = job
             \/ job' = [job EXCEPT !.awaiting = "none"] /\ ~isAnalyzing'
          /\ (\/ analysisResult' # analysisResult
              \/ error' # error
              \/ isAnalyzing' # isAnalyzing) => job' # job]_vars

\* An analysis in flight while a file was dropped on the form and another
\* configuration saved: the job keeps the text and the configuration it was
\* started with.
C25_Witness ==
  /\ isAnalyzing
  /\ job.awaiting = "fetch"
  /\ inputText # job.text
  /\ storage # job.config

-----------------------------------------------------------------------------
\* C26: with the 'llm-config' item changed by the application only, the
\* configuration the form holds is the stored one (loaded at mount or written
\* by handleLLMConfigSave), and every call of onAnalyze (the step that makes
\* the job) passes the form's text, which has a character that is not white
\* space, and passes useLLM = true only if the form holds a configuration;
\* handleAnalyze then finds that configuration in the store and does not
\* fail for want of one.
C26_SubmitGuarded ==
  [][/\ llmConfig # Null => llmConfig = storage
     /\ (job = NoJob /\ job' # NoJob) =>
          /\ job'.text = inputText
          /\ \E k \in 1..Len(job'.text) : job'.text[k] \notin WhiteSpace
          /\ job'.useLLM =>
               /\ useLLM
               /\ llmConfig \in Configs
               /\ job'.config = llmConfig
               /\ error' # ConfigMissingMessage]_vars

\* An LLM analysis started after an earlier analysis had failed and the form
\* had been mounted anew: its request is out, with the stored configuration.
C26_Witness ==
  /\ job.useLLM
  /\ job.awaiting = "fetch"
  /\ job.config = storage
  /\ storage \in Configs
  /\ logged # <<>>

====
